---- MODULE Spec2Model ----
(***************************************************************************)
(* goreleaser-helper: the release command (load config, optional          *)
(* changelog, concurrent cross-platform build, create release, upload of  *)
(* the built binaries).  One invocation of `release` is one behaviour.    *)
(***************************************************************************)
EXTENDS Integers, Sequences, FiniteSets, TLC

\* ---------------------------------------------------------------- bounds
MaxPlatforms == 2

\* ------------------------------------------------------------- constants
Nil == <<>>
NoID == <<>>
ProjectName == "app"
OutputDirName == "dist"

\* A platform of the matrix (config.Build.Platforms element).
Platform(os, arch) == [OS |-> os, Arch |-> arch]

\* Platforms the model builds matrices of, in the order a configuration
\* lists them; all pass isValidPlatform.
PlatformList ==
    <<Platform("linux", "amd64"), Platform("windows", "amd64"),
      Platform("darwin", "arm64"), Platform("linux", "arm64")>>

isValidPlatform(os, arch) ==
    /\ os \in {"darwin", "linux", "windows"}
    /\ arch \in {"amd64", "arm64"}

\* Matrices a loaded configuration can hold: setDefaults replaces an empty
\* list, and validateConfig checks each pair alone, so it accepts a list
\* that names one pair twice.
Matrices ==
    {m \in {SubSeq(PlatformList, 1, n) : n \in 1..MaxPlatforms}
            \cup {<<PlatformList[1], PlatformList[1]>>} :
       \A k \in 1..Len(m) : isValidPlatform(m[k].OS, m[k].Arch)}

\* Repository strings, as sequences of characters.
RepoEmpty == <<>>
RepoShort == <<"o", "/", "r">>
RepoURL == <<"g", "i", "t", "h", "u", "b", ".", "c", "o", "m", "/", "o", "/", "r">>
RepoBad == <<"o">>

\* strings.Split(s, sep) for a one-character separator.
RECURSIVE SplitFrom(_, _, _, _)
SplitFrom(s, sep, i, cur) ==
    IF i > Len(s) THEN <<cur>>
    ELSE IF s[i] = sep THEN <<cur>> \o SplitFrom(s, sep, i + 1, <<>>)
    ELSE SplitFrom(s, sep, i + 1, Append(cur, s[i]))

Split(s, sep) == SplitFrom(s, sep, 1, <<>>)

\* parseRepoURL: ok iff the string has exactly two "/"-separated parts.
parseRepoURL(r) ==
    LET parts == Split(r, "/")
    IN  IF Len(parts) # 2
        THEN [ok |-> FALSE, owner |-> <<>>, name |-> <<>>]
        ELSE [ok |-> TRUE, owner |-> parts[1], name |-> parts[2]]

\* The class [a-zA-Z0-9-] of isValidRepoURL's pattern.
RepoNameChars ==
    {"a", "b", "c", "d", "e", "f", "g", "h", "i", "j", "k", "l", "m", "n",
     "o", "p", "q", "r", "s", "t", "u", "v", "w", "x", "y", "z",
     "A", "B", "C", "D", "E", "F", "G", "H", "I", "J", "K", "L", "M", "N",
     "O", "P", "Q", "R", "S", "T", "U", "V", "W", "X", "Y", "Z",
     "0", "1", "2", "3", "4", "5", "6", "7", "8", "9", "-"}

\* isValidRepoURL: the string matches ^github\.com/[a-zA-Z0-9-]+/[a-zA-Z0-9-]+$
\* (the class has no "/", so the string has exactly three parts).
isValidRepoURL(r) ==
    LET parts == Split(r, "/")
    IN  /\ Len(parts) = 3
        /\ parts[1] = <<"g", "i", "t", "h", "u", "b", ".", "c", "o", "m">>
        /\ \A k \in 2..3 :
              /\ parts[k] # <<>>
              /\ \A j \in 1..Len(parts[k]) : parts[k][j] \in RepoNameChars

\* github.defaultRepo values of a configuration validateConfig accepts: the
\* empty string, or one isValidRepoURL accepts.
ValidDefaultRepos ==
    {r \in {RepoEmpty, RepoShort, RepoURL, RepoBad} :
        r = RepoEmpty \/ isValidRepoURL(r)}

\* Ids the remote may put in the "id" field of its 201 answer (0 is also
\* what json.Unmarshal leaves when the field is missing).
RemoteIds == {0, 12}

\* fmt.Sprintf("%d", n) for n >= 0, as a sequence of digits.
RECURSIVE FormatInt(_)
FormatInt(n) ==
    IF n < 10 THEN <<n>> ELSE Append(FormatInt(n \div 10), n % 10)

\* buildForPlatform's output path.
OutputPath(ver, os, arch) ==
    OutputDirName \o "/" \o ver \o "/" \o ProjectName \o "_" \o os \o "_" \o arch
        \o (IF os = "windows" THEN ".exe" ELSE "")

\* filepath.Base of a path produced by OutputPath.
AssetName(os, arch) ==
    ProjectName \o "_" \o os \o "_" \o arch
        \o (IF os = "windows" THEN ".exe" ELSE "")

\* fmt.Errorf("msg: %w", err): the wrap chain, outermost message first.
Wrap(msg, err) == <<msg>> \o err

VARIABLES
    cfg,          \* the configuration file's content after setDefaults
    cfgLoadable,  \* whether config.Load succeeds
    version,      \* --version
    repo,         \* package variable repo (--repo, then the default)
    tokenEnv,     \* value of the token environment variable
    generateChg,  \* --changelog
    pc,           \* position of RunE
    cmdErr,       \* error returned by RunE (Nil while running / on success)
    printed,      \* "Successfully created release" was printed
    stages,       \* stages started so far, in order
    bIdx,         \* BuildBinaries: platforms spawned so far
    bUnit,        \* position of each build goroutine
    bRes,         \* each build goroutine's compile result
    mu,           \* holder of mu (0 = unlocked)
    results,      \* BuildBinaries' results slice
    bBar,         \* build progress bar count
    bErrChan,     \* BuildBinaries' errChan buffer
    bClosed,      \* errChan closed
    bWg,          \* BuildBinaries' WaitGroup counter
    bReturned,    \* BuildBinaries returned
    binaries,     \* what BuildBinaries returned to RunE
    buildErr,     \* the error BuildBinaries returned
    owner,        \* parseRepoURL results
    repoName,
    createAttempts, \* calls of createRelease
    createRes,    \* "none" | "ok" | "fail"
    releaseID,    \* id returned by createRelease
    uIdx,         \* uploadAssets: binaries spawned / iterated so far
    uUnit,        \* position of each upload goroutine
    uRes,         \* each upload's result
    uIdUsed,      \* release id each upload request was sent to
    uCalls,       \* uploads whose request was sent to the remote
    handles,      \* uploads holding an open file
    uBar,         \* upload progress bar count
    uErrChan,     \* uploadAssets' errChan buffer
    uClosed,
    uWg,
    upReturned,   \* uploadAssets returned
    upErr,        \* the error uploadAssets returned
    remote,       \* releases the remote holds for the repository
    crLog,        \* createRelease calls made so far: options and result
    cMsg,         \* a commit message handed to parseCommitMessage
    cEntry,       \* what parseCommitMessage returned for it (<<>>: not yet)
    gitCommits,   \* the repository's commits, oldest first, as git log lines
    gitTagAt,     \* commits the last tag covers (-1: the repository has no tag)
    chgFile,      \* the changelog file: whether it exists, and its lines
    fileHist,     \* contents the changelog file had, oldest first
    genLog,       \* the Generate runs made so far
    bBarLock,     \* holder of the build progress bar's own lock (0: free)
    uBarLock,     \* holder of the upload progress bar's own lock
    relAssets,    \* assets the remote holds, each with its release's id
    invLog,       \* CreateRelease calls that returned, oldest first
    inv           \* the CreateRelease call under way

inputVars == <<cfg, cfgLoadable, version, tokenEnv, generateChg>>
cmdVars == <<repo, pc, cmdErr, printed, stages>>
buildVars == <<bIdx, bUnit, bRes, mu, results, bBar, bErrChan, bClosed, bWg,
               bReturned, binaries, buildErr>>
createVars == <<owner, repoName, createAttempts, createRes, releaseID>>
uploadVars == <<uIdx, uUnit, uRes, uIdUsed, uCalls, handles, uBar, uErrChan,
                uClosed, uWg, upReturned, upErr>>
remoteVars == <<remote, crLog, relAssets, invLog, inv>>
classifyVars == <<cMsg, cEntry>>
changelogVars == <<gitCommits, gitTagAt, chgFile, fileHist, genLog>>
barVars == <<bBarLock, uBarLock>>
extVars == <<remoteVars, classifyVars, changelogVars, barVars>>
vars == <<inputVars, cmdVars, buildVars, createVars, uploadVars, extVars>>

N == Len(cfg.Platforms)
M == Len(binaries)
Units == 1..MaxPlatforms

\* The remote holds no release and createRelease was not called.
NoInvocation ==
    [phase |-> "idle", ver |-> "", id |-> NoID, pending |-> {},
     sent |-> {}, failed |-> {}]

RemoteIdle ==
    /\ remote = {}
    /\ crLog = <<>>
    /\ relAssets = {}
    /\ invLog = <<>>
    /\ inv = NoInvocation

\* No unit is inside bar.Add.
BarIdle ==
    /\ bBarLock = 0
    /\ uBarLock = 0

\* parseCommitMessage was handed nothing.
ClassifyIdle ==
    /\ cMsg = <<>>
    /\ cEntry = <<>>

\* No repository and no changelog file are looked at.
ChangelogIdle ==
    /\ gitCommits = <<>>
    /\ gitTagAt = -1
    /\ chgFile = [exists |-> FALSE, data |-> <<>>]
    /\ fileHist = <<>>
    /\ genLog = <<>>

Init ==
    /\ cfg \in [Platforms : Matrices,
                DefaultRepo : ValidDefaultRepos,
                ChangelogEnabled : BOOLEAN]
    /\ cfgLoadable \in BOOLEAN
    /\ version \in {"", "1.0.0"}
    /\ repo \in {RepoEmpty, RepoShort, RepoBad}
    /\ tokenEnv \in {"", "tok"}
    /\ generateChg \in BOOLEAN
    /\ pc = "load"
    /\ cmdErr = Nil
    /\ printed = FALSE
    /\ stages = <<>>
    /\ bIdx = 0
    /\ bUnit = [i \in Units |-> "idle"]
    /\ bRes = [i \in Units |-> "none"]
    /\ mu = 0
    /\ results = <<>>
    /\ bBar = 0
    /\ bErrChan = <<>>
    /\ bClosed = FALSE
    /\ bWg = 0
    /\ bReturned = FALSE
    /\ binaries = <<>>
    /\ buildErr = Nil
    /\ owner = <<>>
    /\ repoName = <<>>
    /\ createAttempts = 0
    /\ createRes = "none"
    /\ releaseID = NoID
    /\ uIdx = 0
    /\ uUnit = [i \in Units |-> "idle"]
    /\ uRes = [i \in Units |-> "none"]
    /\ uIdUsed = [i \in Units |-> NoID]
    /\ uCalls = {}
    /\ handles = {}
    /\ uBar = 0
    /\ uErrChan = <<>>
    /\ uClosed = FALSE
    /\ uWg = 0
    /\ upReturned = FALSE
    /\ upErr = Nil
    /\ RemoteIdle
    /\ ClassifyIdle
    /\ ChangelogIdle
    /\ BarIdle

\* ------------------------------------------------------------ RunE
\* RunE returns err: no later statement of the command runs.
Fail(err) ==
    /\ pc' = "done"
    /\ cmdErr' = err

\* config.Load(configPath)
LoadConfig ==
    /\ pc = "load"
    /\ IF cfgLoadable
       THEN /\ pc' = "flags"
            /\ UNCHANGED cmdErr
       ELSE Fail(Wrap("failed to load config", <<"load">>))
    /\ UNCHANGED <<extVars, inputVars, repo, printed, stages, buildVars, createVars,
                   uploadVars>>

\* CheckFlags without the token check
CheckFlagsNoTokenCheck ==
    /\ pc = "flags"
    /\ repo' = IF repo = RepoEmpty THEN cfg.DefaultRepo ELSE repo
    /\ IF version = "" THEN Fail(<<"version is required">>)
       ELSE IF repo' = RepoEmpty THEN Fail(<<"repository is required">>)
       ELSE /\ pc' = "changelog"
            /\ UNCHANGED cmdErr
    /\ UNCHANGED <<extVars, inputVars, printed, stages, buildVars, createVars,
                   uploadVars>>

\* default repository, required flags, token
CheckFlags ==
    /\ pc = "flags"
    /\ repo' = IF repo = RepoEmpty THEN cfg.DefaultRepo ELSE repo
    /\ IF version = "" THEN Fail(<<"version is required">>)
       ELSE IF repo' = RepoEmpty THEN Fail(<<"repository is required">>)
       ELSE IF tokenEnv = "" THEN Fail(<<"GitHub token not found">>)
       ELSE /\ pc' = "changelog"
            /\ UNCHANGED cmdErr
    /\ UNCHANGED <<extVars, inputVars, printed, stages, buildVars, createVars,
                   uploadVars>>

\* whether RunE runs the changelog stage
ChangelogWantedAlways == TRUE

ChangelogWanted == cfg.ChangelogEnabled \/ generateChg

\* gen.Generate(version), when enabled; its result is that of git and of
\* the file system.
GenerateChangelog ==
    /\ pc = "changelog"
    /\ IF ChangelogWanted
       THEN /\ stages' = Append(stages, "changelog")
            /\ \E ok \in BOOLEAN :
                 IF ok
                 THEN pc' = "build" /\ UNCHANGED cmdErr
                 ELSE Fail(Wrap("failed to generate changelog", <<"generate">>))
       ELSE /\ pc' = "build"
            /\ UNCHANGED <<cmdErr, stages>>
    /\ UNCHANGED <<extVars, inputVars, repo, printed, buildVars, createVars,
                   uploadVars>>

\* ------------------------------------------------- build.BuildBinaries
\* the error a build goroutine sends for matrix entry i
BuildError(i) ==
    Wrap("failed to build for " \o cfg.Platforms[i].OS \o "/" \o cfg.Platforms[i].Arch,
         <<"build command failed">>)

\* buildForPlatform's result for matrix entry i
BuildResult(i) ==
    [Path |-> OutputPath(version, cfg.Platforms[i].OS, cfg.Platforms[i].Arch),
     Platform |-> cfg.Platforms[i].OS,
     Arch |-> cfg.Platforms[i].Arch]

\* RunE's handling of BuildBinaries' return value
BuildReturn(res, err) ==
    /\ bReturned' = TRUE
    /\ binaries' = res
    /\ buildErr' = err
    /\ IF err # Nil
       THEN Fail(Wrap("failed to build binaries", err))
       ELSE pc' = "publish" /\ UNCHANGED cmdErr

\* RunE calls BuildBinaries; os.MkdirAll of the output directory
BuildStart ==
    /\ pc = "build"
    /\ stages' = Append(stages, "build")
    /\ \E ok \in BOOLEAN :
         IF ok
         THEN /\ pc' = "build_spawn"
              /\ UNCHANGED <<cmdErr, bReturned, binaries, buildErr>>
         ELSE BuildReturn(<<>>, Wrap("failed to create output directory", <<"mkdir">>))
    /\ UNCHANGED <<extVars, inputVars, repo, printed, bIdx, bUnit, bRes, mu, results,
                   bBar, bErrChan, bClosed, bWg, createVars, uploadVars>>

\* one iteration of the range loop: wg.Add(1); go func(p)
BuildSpawn ==
    /\ pc = "build_spawn"
    /\ IF bIdx < N
       THEN /\ bIdx' = bIdx + 1
            /\ bWg' = bWg + 1
            /\ bUnit' = [bUnit EXCEPT ![bIdx + 1] = "compile"]
            /\ UNCHANGED pc
       ELSE /\ pc' = "build_wait"
            /\ UNCHANGED <<bIdx, bWg, bUnit>>
    /\ UNCHANGED <<extVars, inputVars, repo, cmdErr, printed, stages, bRes, mu, results,
                   bBar, bErrChan, bClosed, bReturned, binaries, buildErr,
                   createVars, uploadVars>>

\* buildForPlatform: the compiler's exit status decides
BuildCompile(i) ==
    /\ bUnit[i] = "compile"
    /\ \E ok \in BOOLEAN :
         /\ bRes' = [bRes EXCEPT ![i] = IF ok THEN "ok" ELSE "fail"]
         /\ bUnit' = [bUnit EXCEPT ![i] = IF ok THEN "lock" ELSE "send"]
    /\ UNCHANGED <<extVars, inputVars, cmdVars, bIdx, mu, results, bBar, bErrChan,
                   bClosed, bWg, bReturned, binaries, buildErr, createVars,
                   uploadVars>>

\* An unbuffered channel: make(chan error).
ErrChanCapUnbuffered(n) == 0

\* make(chan error, n): the capacity of errChan
ErrChanCap(n) == n

\* errChan <- err; blocks while the buffer (capacity N) is full
BuildSendErr(i) ==
    /\ bUnit[i] = "send"
    /\ Len(bErrChan) < ErrChanCap(N)
    /\ bErrChan' = Append(bErrChan, [unit |-> i, err |-> BuildError(i)])
    /\ bUnit' = [bUnit EXCEPT ![i] = "exit"]
    /\ UNCHANGED <<extVars, inputVars, cmdVars, bIdx, bRes, mu, results, bBar, bClosed,
                   bWg, bReturned, binaries, buildErr, createVars, uploadVars>>

\* The mutex is taken for free whoever holds it.
LockFreeAlways(holder) == TRUE

\* sync.Mutex: Lock() returns only when nobody holds the mutex.
LockFree(holder) == holder = 0

\* mu.Lock()
BuildLock(i) ==
    /\ bUnit[i] = "lock"
    /\ LockFree(mu)
    /\ mu' = i
    /\ bUnit' = [bUnit EXCEPT ![i] = "append"]
    /\ UNCHANGED <<extVars, inputVars, cmdVars, bIdx, bRes, results, bBar, bErrChan,
                   bClosed, bWg, bReturned, binaries, buildErr, createVars,
                   uploadVars>>

\* results = append(results, result)
BuildAppend(i) ==
    /\ bUnit[i] = "append"
    /\ results' = Append(results, BuildResult(i))
    /\ bUnit' = [bUnit EXCEPT ![i] = "unlock"]
    /\ UNCHANGED <<extVars, inputVars, cmdVars, bIdx, bRes, mu, bBar, bErrChan, bClosed,
                   bWg, bReturned, binaries, buildErr, createVars, uploadVars>>

\* mu.Unlock()
BuildUnlock(i) ==
    /\ bUnit[i] = "unlock"
    /\ mu' = 0
    /\ bUnit' = [bUnit EXCEPT ![i] = "bar"]
    /\ UNCHANGED <<extVars, inputVars, cmdVars, bIdx, bRes, results, bBar, bErrChan,
                   bClosed, bWg, bReturned, binaries, buildErr, createVars,
                   uploadVars>>

\* bar.Add(1) entered: progressbar takes the bar's own lock (p.lock.Lock())
BuildBarLock(i) ==
    /\ bUnit[i] = "bar"
    /\ LockFree(bBarLock)
    /\ bBarLock' = i
    /\ bUnit' = [bUnit EXCEPT ![i] = "bar_add"]
    /\ UNCHANGED <<remoteVars, classifyVars, changelogVars, uBarLock,
                   inputVars, cmdVars, bIdx, bRes, mu, results, bBar,
                   bErrChan, bClosed, bWg, bReturned, binaries, buildErr,
                   createVars, uploadVars>>

\* bar.Add(1) inside the lock: the count goes up, the lock is released
BuildBar(i) ==
    /\ bUnit[i] = "bar_add"
    /\ bBar' = bBar + 1
    /\ bBarLock' = 0
    /\ bUnit' = [bUnit EXCEPT ![i] = "exit"]
    /\ UNCHANGED <<remoteVars, classifyVars, changelogVars, uBarLock,
                   inputVars, cmdVars, bIdx, bRes, mu, results, bErrChan,
                   bClosed, bWg, bReturned, binaries, buildErr, createVars,
                   uploadVars>>

\* the deferred wg.Done()
BuildDone(i) ==
    /\ bUnit[i] = "exit"
    /\ bWg' = bWg - 1
    /\ bUnit' = [bUnit EXCEPT ![i] = "done"]
    /\ UNCHANGED <<extVars, inputVars, cmdVars, bIdx, bRes, mu, results, bBar, bErrChan,
                   bClosed, bReturned, binaries, buildErr, createVars,
                   uploadVars>>

\* what wg.Wait() waits for
BuildWaitOverNoWait == TRUE

BuildWaitOverOneLeft == bWg <= 1

BuildWaitOver == bWg = 0

\* wg.Wait(); close(errChan)
BuildWait ==
    /\ pc = "build_wait"
    /\ BuildWaitOver
    /\ bClosed' = TRUE
    /\ pc' = "build_collect"
    /\ UNCHANGED <<extVars, inputVars, repo, cmdErr, printed, stages, bIdx, bUnit, bRes,
                   mu, results, bBar, bErrChan, bWg, bReturned, binaries,
                   buildErr, createVars, uploadVars>>

\* for err := range errChan { return nil, err }; return results, nil
BuildCollectIgnoreErrors(ch, res) == [res |-> res, err |-> Nil]

BuildCollectKeepResults(ch, res) ==
    [res |-> res, err |-> IF Len(ch) > 0 THEN ch[1].err ELSE Nil]

BuildCollect(ch, res) ==
    IF Len(ch) > 0
    THEN [res |-> <<>>, err |-> ch[1].err]
    ELSE [res |-> res, err |-> Nil]

BuildFinish ==
    /\ pc = "build_collect"
    /\ LET r == BuildCollect(bErrChan, results)
       IN  BuildReturn(r.res, r.err)
    /\ bErrChan' = IF Len(bErrChan) > 0 THEN Tail(bErrChan) ELSE bErrChan
    /\ UNCHANGED <<extVars, inputVars, repo, printed, stages, bIdx, bUnit, bRes, mu,
                   results, bBar, bClosed, bWg, createVars, uploadVars>>

\* ------------------------------------------------ github.CreateRelease
\* CreateRelease returns err to RunE, which wraps and returns it
PublishFail(err) == Fail(Wrap("failed to create release", err))

\* RunE calls CreateRelease; parseRepoURL(opts.Repo)
PublishStart ==
    /\ pc = "publish"
    /\ stages' = Append(stages, "publish")
    /\ LET r == parseRepoURL(repo)
       IN  IF r.ok
           THEN /\ owner' = r.owner
                /\ repoName' = r.name
                /\ pc' = "create"
                /\ UNCHANGED cmdErr
           ELSE /\ PublishFail(Wrap("failed to parse repository URL",
                                    <<"invalid repository format">>))
                /\ UNCHANGED <<owner, repoName>>
    /\ UNCHANGED <<extVars, inputVars, repo, printed, buildVars, createAttempts,
                   createRes, releaseID, uploadVars>>

\* Outcomes of createRelease: the request cannot be built, the send fails,
\* the status is not 201, the body is not JSON, or 201 with an id.
CreateOutcomes == {"reqfail", "sendfail", "status", "badjson", "ok"}

\* where RunE goes after a failed createRelease
AfterCreateFailureRetry == "create"

AfterCreateFailureIgnored == "upload_spawn"

AfterCreateFailure == "done"

\* createRelease(owner, repoName, opts) as called by CreateRelease
CreateCall ==
    /\ pc = "create"
    /\ \E out \in CreateOutcomes, id \in RemoteIds :
         /\ createAttempts' = createAttempts + 1
         /\ IF out = "ok"
            THEN /\ createRes' = "ok"
                 /\ releaseID' = FormatInt(id)
                 /\ pc' = "upload_spawn"
                 /\ UNCHANGED cmdErr
            ELSE /\ createRes' = "fail"
                 /\ UNCHANGED releaseID
                 /\ pc' = AfterCreateFailure
                 /\ cmdErr' = Wrap("failed to create release",
                                   Wrap("failed to create release", <<out>>))
    /\ UNCHANGED <<extVars, inputVars, repo, printed, stages, buildVars, owner,
                   repoName, uploadVars>>

\* ------------------------------------------- uploadAssets (concurrent)
\* filepath.Base(b.Path) of binary i
BinaryName(i) == AssetName(binaries[i].Platform, binaries[i].Arch)

\* the error an upload goroutine sends for binary i
UploadError(i, cause) == Wrap("failed to upload " \o BinaryName(i), <<cause>>)

\* the release id an upload request is addressed to
UploadTargetStale(id) == FormatInt(0)

UploadTarget(id) == id

\* one iteration of the range loop: wg.Add(1); go func(b)
UploadSpawn ==
    /\ pc = "upload_spawn"
    /\ IF uIdx < M
       THEN /\ uIdx' = uIdx + 1
            /\ uWg' = uWg + 1
            /\ uUnit' = [uUnit EXCEPT ![uIdx + 1] = "open"]
            /\ UNCHANGED pc
       ELSE /\ pc' = "upload_wait"
            /\ UNCHANGED <<uIdx, uWg, uUnit>>
    /\ UNCHANGED <<extVars, inputVars, repo, cmdErr, printed, stages, buildVars,
                   createVars, uRes, uIdUsed, uCalls, handles, uBar, uErrChan,
                   uClosed, upReturned, upErr>>

\* uploadSingleAsset: os.Open(binary.Path)
UploadOpen(i) ==
    /\ uUnit[i] = "open"
    /\ \E ok \in BOOLEAN :
         IF ok
         THEN /\ handles' = handles \cup {i}
              /\ uUnit' = [uUnit EXCEPT ![i] = "request"]
              /\ UNCHANGED uRes
         ELSE /\ uRes' = [uRes EXCEPT ![i] = "open"]
              /\ uUnit' = [uUnit EXCEPT ![i] = "send"]
              /\ UNCHANGED handles
    /\ UNCHANGED <<extVars, inputVars, cmdVars, buildVars, createVars, uIdx, uIdUsed,
                   uCalls, uBar, uErrChan, uClosed, uWg, upReturned, upErr>>

\* uploadSingleAsset after the open: Stat/Seek/NewRequest may fail before
\* any request ("stat"); client.Do may fail ("do"); the status may not be
\* 201 ("status"); the deferred file.Close() runs on every return.
UploadRequest(i) ==
    /\ uUnit[i] = "request"
    /\ \E out \in {"stat", "do", "status", "ok"} :
         /\ uRes' = [uRes EXCEPT ![i] = out]
         /\ IF out = "stat"
            THEN UNCHANGED <<uCalls, uIdUsed>>
            ELSE /\ uCalls' = uCalls \cup {i}
                 /\ uIdUsed' = [uIdUsed EXCEPT ![i] = UploadTarget(releaseID)]
         /\ uUnit' = [uUnit EXCEPT ![i] = IF out = "ok" THEN "bar" ELSE "send"]
    /\ handles' = handles \ {i}
    /\ UNCHANGED <<extVars, inputVars, cmdVars, buildVars, createVars, uIdx, uBar,
                   uErrChan, uClosed, uWg, upReturned, upErr>>

\* errChan <- err; blocks while the buffer (capacity M) is full
UploadSendErr(i) ==
    /\ uUnit[i] = "send"
    /\ Len(uErrChan) < ErrChanCap(M)
    /\ uErrChan' = Append(uErrChan, [unit |-> i, err |-> UploadError(i, uRes[i])])
    /\ uUnit' = [uUnit EXCEPT ![i] = "exit"]
    /\ UNCHANGED <<extVars, inputVars, cmdVars, buildVars, createVars, uIdx, uRes,
                   uIdUsed, uCalls, handles, uBar, uClosed, uWg, upReturned,
                   upErr>>

\* bar.Add(1) entered: progressbar takes the bar's own lock
UploadBarLock(i) ==
    /\ uUnit[i] = "bar"
    /\ LockFree(uBarLock)
    /\ uBarLock' = i
    /\ uUnit' = [uUnit EXCEPT ![i] = "bar_add"]
    /\ UNCHANGED <<remoteVars, classifyVars, changelogVars, bBarLock,
                   inputVars, cmdVars, buildVars, createVars, uIdx, uRes,
                   uIdUsed, uCalls, handles, uBar, uErrChan, uClosed, uWg,
                   upReturned, upErr>>

\* bar.Add(1) inside the lock: the count goes up, the lock is released
UploadBar(i) ==
    /\ uUnit[i] = "bar_add"
    /\ uBar' = uBar + 1
    /\ uBarLock' = 0
    /\ uUnit' = [uUnit EXCEPT ![i] = "exit"]
    /\ UNCHANGED <<remoteVars, classifyVars, changelogVars, bBarLock,
                   inputVars, cmdVars, buildVars, createVars, uIdx, uRes,
                   uIdUsed, uCalls, handles, uErrChan, uClosed, uWg,
                   upReturned, upErr>>

\* the deferred wg.Done()
UploadDone(i) ==
    /\ uUnit[i] = "exit"
    /\ uWg' = uWg - 1
    /\ uUnit' = [uUnit EXCEPT ![i] = "done"]
    /\ UNCHANGED <<extVars, inputVars, cmdVars, buildVars, createVars, uIdx, uRes,
                   uIdUsed, uCalls, handles, uBar, uErrChan, uClosed,
                   upReturned, upErr>>

\* what wg.Wait() waits for
UploadWaitOverNoWait == TRUE

UploadWaitOver == uWg = 0

\* wg.Wait(); close(errChan)
UploadWait ==
    /\ pc = "upload_wait"
    /\ UploadWaitOver
    /\ uClosed' = TRUE
    /\ pc' = "upload_collect"
    /\ UNCHANGED <<extVars, inputVars, repo, cmdErr, printed, stages, buildVars,
                   createVars, uIdx, uUnit, uRes, uIdUsed, uCalls, handles,
                   uBar, uErrChan, uWg, upReturned, upErr>>

\* for err := range errChan { return err }; return nil
UploadCollectIgnoreErrors(ch) == Nil

UploadCollect(ch) == IF Len(ch) > 0 THEN ch[1].err ELSE Nil

\* uploadAssets returns err; CreateRelease and RunE act on it
UploadReturn(err) ==
    /\ upReturned' = TRUE
    /\ upErr' = err
    /\ pc' = "done"
    /\ IF err # Nil
       THEN /\ cmdErr' = Wrap("failed to create release",
                              Wrap("failed to upload assets", err))
            /\ UNCHANGED printed
       ELSE /\ printed' = TRUE
            /\ UNCHANGED cmdErr

UploadFinish ==
    /\ pc = "upload_collect"
    /\ UploadReturn(UploadCollect(uErrChan))
    /\ uErrChan' = IF Len(uErrChan) > 0 THEN Tail(uErrChan) ELSE uErrChan
    /\ UNCHANGED <<extVars, inputVars, repo, stages, buildVars, createVars, uIdx, uUnit,
                   uRes, uIdUsed, uCalls, handles, uBar, uClosed, uWg>>

\* --------------------------- internal/github/release.go (sequential)
\* createRelease returns a placeholder id on 201
PlaceholderID == <<"release-id">>

SeqCreateCall ==
    /\ pc = "create"
    /\ \E out \in CreateOutcomes \ {"badjson"} :
         /\ createAttempts' = createAttempts + 1
         /\ IF out = "ok"
            THEN /\ createRes' = "ok"
                 /\ releaseID' = PlaceholderID
                 /\ pc' = "seq_upload"
                 /\ UNCHANGED cmdErr
            ELSE /\ createRes' = "fail"
                 /\ UNCHANGED releaseID
                 /\ PublishFail(Wrap("failed to create release", <<out>>))
    /\ UNCHANGED <<extVars, inputVars, repo, printed, stages, buildVars, owner,
                   repoName, uploadVars>>

\* one iteration of uploadAssets' loop over opts.Binaries, or its final
\* return; an error returns at once, and every deferred file.Close() runs
\* when the function returns.
SeqUpload ==
    /\ pc = "seq_upload"
    /\ IF uIdx < M
       THEN \E out \in {"open", "stat", "do", "status", "ok"} :
              LET i == uIdx + 1 IN
              /\ uIdx' = i
              /\ uRes' = [uRes EXCEPT ![i] = out]
              /\ uUnit' = [uUnit EXCEPT ![i] = "done"]
              /\ IF out \in {"do", "status", "ok"}
                 THEN /\ uCalls' = uCalls \cup {i}
                      /\ uIdUsed' = [uIdUsed EXCEPT ![i] = releaseID]
                 ELSE UNCHANGED <<uCalls, uIdUsed>>
              /\ IF out = "ok"
                 THEN /\ handles' = handles \cup {i}
                      /\ UNCHANGED <<pc, cmdErr, printed, upReturned, upErr>>
                 ELSE /\ handles' = {}
                      /\ UploadReturn(<<out>>)
       ELSE /\ handles' = {}
            /\ UploadReturn(Nil)
            /\ UNCHANGED <<uIdx, uRes, uUnit, uCalls, uIdUsed>>
    /\ UNCHANGED <<extVars, inputVars, repo, stages, buildVars, createVars, uBar,
                   uErrChan, uClosed, uWg>>

\* ------------------------------------------------------ specifications
Front ==
    \/ LoadConfig
    \/ CheckFlags
    \/ GenerateChangelog
    \/ BuildStart
    \/ BuildSpawn
    \/ \E i \in Units : BuildCompile(i)
    \/ \E i \in Units : BuildSendErr(i)
    \/ \E i \in Units : BuildLock(i)
    \/ \E i \in Units : BuildAppend(i)
    \/ \E i \in Units : BuildUnlock(i)
    \/ \E i \in Units : BuildBarLock(i)
    \/ \E i \in Units : BuildBar(i)
    \/ \E i \in Units : BuildDone(i)
    \/ BuildWait
    \/ BuildFinish
    \/ PublishStart

Next ==
    \/ Front
    \/ CreateCall
    \/ UploadSpawn
    \/ \E i \in Units : UploadOpen(i)
    \/ \E i \in Units : UploadRequest(i)
    \/ \E i \in Units : UploadSendErr(i)
    \/ \E i \in Units : UploadBarLock(i)
    \/ \E i \in Units : UploadBar(i)
    \/ \E i \in Units : UploadDone(i)
    \/ UploadWait
    \/ UploadFinish

Spec == Init /\ [][Next]_vars

NextSeq ==
    \/ Front
    \/ SeqCreateCall
    \/ SeqUpload

SpecSeq == Init /\ [][NextSeq]_vars

\* ------------------------------------------------------ release state
\* The release lifecycle as CreateRelease's progress determines it.
Lifecycle ==
    IF createRes = "none" THEN "Unpublished"
    ELSE IF createRes = "fail" THEN "Failed"
    ELSE IF ~upReturned THEN "Created"
    ELSE IF upErr = Nil THEN "Published"
    ELSE "PartiallyPublished"

FailedBuilds == {i \in 1..N : bRes[i] = "fail"}
OkBuilds == {i \in 1..N : bRes[i] = "ok"}
FailedUploads == {i \in 1..M : uRes[i] \notin {"none", "ok"}}
OkUploads == {i \in 1..M : uRes[i] = "ok"}

\* ------------------------------------------------------------- claims

\* C1: if the build of at least one platform failed, the command neither
\* calls createRelease nor issues any upload, and it ends with an error.
C1_NoPartialRelease ==
    FailedBuilds # {} =>
        /\ createAttempts = 0
        /\ createRes = "none"
        /\ uCalls = {}
        /\ "publish" \notin {stages[k] : k \in 1..Len(stages)}
        /\ ~printed
        /\ (pc = "done" => cmdErr # Nil)

C1_Witness ==
    /\ pc = "done"
    /\ FailedBuilds # {}
    /\ OkBuilds # {}
    /\ cmdErr # Nil
    /\ cmdErr[1] = "failed to build binaries"

\* C2: an upload request is issued (an upload unit even exists) only after
\* createRelease returned successfully with an id; after a failed
\* createRelease no upload is ever issued.
C2_CreatePrecedesUpload ==
    /\ \A i \in Units :
         (i \in uCalls \/ uUnit[i] # "idle" \/ uRes[i] # "none") =>
             createRes = "ok" /\ releaseID # NoID
    /\ createRes # "ok" => uCalls = {} /\ uIdx = 0

C2_Witness ==
    /\ createRes = "ok"
    /\ Cardinality(uCalls) >= 2

\* C3: the success message is printed only if createRelease succeeded and
\* every binary's upload succeeded; once uploadAssets returned with any
\* failed upload, it returned an error and the command reports an error.
C3_SuccessOnlyIfComplete ==
    /\ printed =>
         /\ createRes = "ok"
         /\ \A i \in 1..M : uRes[i] = "ok" /\ i \in uCalls
         /\ cmdErr = Nil
    /\ (upReturned /\ FailedUploads # {}) =>
         /\ upErr # Nil
         /\ ~printed
         /\ cmdErr # Nil

C3_Witness ==
    /\ pc = "done"
    /\ upReturned
    /\ FailedUploads # {}
    /\ OkUploads # {}
    /\ ~printed

\* C4: once BuildBinaries has started its build units, it returns (and
\* closes errChan) only after the unit of every matrix entry has compiled
\* and finished, whatever the results of the other units.
C4_BuildWaitsForAll ==
    ((bReturned \/ bClosed) /\ bIdx > 0) =>
        \A i \in 1..N : bUnit[i] = "done" /\ bRes[i] \in {"ok", "fail"}

C4_Witness ==
    /\ bReturned
    /\ N >= 2
    /\ FailedBuilds # {}
    /\ OkBuilds # {}
    /\ \A i \in 1..N : bUnit[i] = "done"

\* C5: when uploadAssets returns, the upload of every binary has been
\* attempted and has finished.
C5_AllUploadsAttempted ==
    upReturned => \A i \in 1..M : uRes[i] # "none" /\ uUnit[i] = "done"

\* C6: with K failed platforms out of N, BuildBinaries returns N-K
\* artifacts and K failures.
ReturnedFailures == IF buildErr = Nil THEN 0 ELSE 1

C6_ExactCounts ==
    (bReturned /\ \A i \in 1..N : bRes[i] # "none") =>
        /\ Len(binaries) = N - Cardinality(FailedBuilds)
        /\ ReturnedFailures = Cardinality(FailedBuilds)

\* C7: when exactly one of the M uploads fails, all M uploads have an
\* outcome, M-1 of them succeeded, exactly one error was collected (that
\* of the failed upload), uploadAssets returns it, and the release ends
\* PartiallyPublished.
C7_OneFailedUpload ==
    (uClosed /\ Cardinality(FailedUploads) = 1) =>
        /\ \A i \in 1..M : uRes[i] # "none" /\ uUnit[i] = "done"
        /\ Cardinality(OkUploads) = M - 1
        /\ pc = "upload_collect" =>
             /\ Len(uErrChan) = 1
             /\ uErrChan[1].unit \in FailedUploads
        /\ upReturned =>
             /\ \E i \in FailedUploads : upErr = UploadError(i, uRes[i])
             /\ Lifecycle = "PartiallyPublished"

C7_Witness ==
    /\ upReturned
    /\ M >= 2
    /\ Cardinality(FailedUploads) = 1
    /\ Lifecycle = "PartiallyPublished"

\* C8: the stages start in the order changelog, build, publish, each at
\* most once, the changelog stage exactly when the configuration or the
\* flag enables it; an error of the command names the last stage started,
\* and after an error no stage is started.
StageError(st) ==
    IF st = "changelog" THEN "failed to generate changelog"
    ELSE IF st = "build" THEN "failed to build binaries"
    ELSE "failed to create release"

C8_StageInv ==
    /\ stages \in {<<>>, <<"changelog">>, <<"changelog", "build">>,
                   <<"changelog", "build", "publish">>,
                   <<"build">>, <<"build", "publish">>}
    /\ (stages # <<>>) =>
         ((stages[1] = "changelog") <=> (cfg.ChangelogEnabled \/ generateChg))
    /\ (cmdErr # Nil /\ stages # <<>>) =>
         cmdErr[1] = StageError(stages[Len(stages)])
    /\ (pc = "done" /\ cmdErr = Nil) =>
         stages[Len(stages)] = "publish"

C8_StageOrder ==
    [][/\ C8_StageInv'
       /\ Len(stages') >= Len(stages)
       /\ SubSeq(stages', 1, Len(stages)) = stages
       /\ cmdErr # Nil => stages' = stages /\ cmdErr' = cmdErr]_vars

C8_Witness ==
    /\ pc = "done"
    /\ stages = <<"changelog", "build", "publish">>
    /\ cmdErr # Nil
    /\ ~cfg.ChangelogEnabled

\* C9: the release is Unpublished until createRelease is called and only
\* moves Unpublished -> Created, Unpublished -> Failed, Created ->
\* Published (every upload succeeded) and Created -> PartiallyPublished
\* (some upload failed); Published, PartiallyPublished and Failed are
\* never left.
LifecycleSteps ==
    {<<"Unpublished", "Created">>, <<"Unpublished", "Failed">>,
     <<"Created", "Published">>, <<"Created", "PartiallyPublished">>}

C9_Lifecycle ==
    [][/\ createAttempts = 0 => Lifecycle = "Unpublished"
       /\ Lifecycle' # Lifecycle => <<Lifecycle, Lifecycle'>> \in LifecycleSteps
       /\ Lifecycle' = "Published" =>
            \A i \in 1..M : uRes'[i] = "ok"
       /\ Lifecycle' = "PartiallyPublished" =>
            \E i \in 1..M : uRes'[i] \notin {"none", "ok"}
       /\ Lifecycle' = "Failed" => uCalls' = {}]_vars

C9_Witness ==
    /\ Lifecycle = "PartiallyPublished"
    /\ OkUploads # {}

\* C10: createRelease is called at most once (exactly once when the
\* publish stage got past parseRepoURL), the release id is assigned at
\* most once and never changes, and every upload request is addressed to
\* that id.
C10_SingleCreate ==
    [][/\ createAttempts' <= 1
       /\ createRes' # "none" => createAttempts' = 1
       /\ releaseID # NoID => releaseID' = releaseID
       /\ releaseID' # NoID => createRes' = "ok"
       /\ \A i \in uCalls' : uIdUsed'[i] = releaseID' /\ releaseID' # NoID]_vars

C10_Witness ==
    /\ pc = "done"
    /\ Cardinality(uCalls) >= 2
    /\ releaseID = <<1, 2>>
    /\ \A i \in uCalls : uIdUsed[i] = <<1, 2>>

\* =====================================================================
\* createRelease against a remote that remembers the releases it holds
\* =====================================================================
MaxCreateCalls == 3

\* The command is not running: its variables rest at fixed values.
CmdIdle ==
    /\ cfg = [Platforms |-> <<PlatformList[1]>>, DefaultRepo |-> RepoEmpty,
              ChangelogEnabled |-> FALSE]
    /\ cfgLoadable = TRUE
    /\ version = "1.0.0"
    /\ repo = RepoShort
    /\ tokenEnv = "tok"
    /\ generateChg = FALSE
    /\ pc = "done"
    /\ cmdErr = Nil
    /\ printed = FALSE
    /\ stages = <<>>
    /\ bIdx = 0
    /\ bUnit = [i \in Units |-> "idle"]
    /\ bRes = [i \in Units |-> "none"]
    /\ mu = 0
    /\ results = <<>>
    /\ bBar = 0
    /\ bErrChan = <<>>
    /\ bClosed = FALSE
    /\ bWg = 0
    /\ bReturned = FALSE
    /\ binaries = <<>>
    /\ buildErr = Nil
    /\ owner = <<>>
    /\ repoName = <<>>
    /\ createAttempts = 0
    /\ createRes = "none"
    /\ releaseID = NoID
    /\ uIdx = 0
    /\ uUnit = [i \in Units |-> "idle"]
    /\ uRes = [i \in Units |-> "none"]
    /\ uIdUsed = [i \in Units |-> NoID]
    /\ uCalls = {}
    /\ handles = {}
    /\ uBar = 0
    /\ uErrChan = <<>>
    /\ uClosed = FALSE
    /\ uWg = 0
    /\ upReturned = FALSE
    /\ upErr = Nil
    /\ BarIdle

cmdAllVars == <<inputVars, cmdVars, buildVars, createVars, uploadVars,
                barVars>>

\* The release data createRelease posts for opts.Version.
ReleaseData(ver) ==
    [tag_name |-> "v" \o ver, name |-> "Release v" \o ver]

Versions == {"1.0.0", "1.1.0"}

\* What the http client hands back for the POST of createRelease: the
\* request may not be delivered; a delivered one is answered with a status
\* and a body (the body of a 201 may fail to decode, or lack the id).
Response(sent, status, body, json, id) ==
    [sent |-> sent, status |-> status, body |-> body, json |-> json,
     id |-> id]

\* The remote's side of the POST: the answers it can give for a tag and the
\* releases it holds afterwards.  An existing tag is answered 422.
RemoteExchanges(rem, opts) ==
    LET held == \E r \in rem : r.tag_name = opts.tag_name
        fresh == Cardinality(rem) + 1
    IN  {[resp |-> Response(FALSE, 0, "", FALSE, 0), rem |-> rem],
         [resp |-> Response(TRUE, 401, "Bad credentials", FALSE, 0),
          rem |-> rem]}
        \cup
        (IF held
         THEN {[resp |-> Response(TRUE, 422, "already_exists", FALSE, 0),
                rem |-> rem]}
         ELSE {[resp |-> Response(TRUE, 201, "", j, IF j THEN fresh ELSE 0),
                rem |-> rem \cup {[tag_name |-> opts.tag_name,
                                   name |-> opts.name, id |-> fresh]}]
               : j \in BOOLEAN})

\* createRelease without its status check.
createReleaseAnyStatus(resp) ==
    IF ~resp.sent
    THEN [id |-> NoID, err |-> Wrap("failed to send request", <<"do">>)]
    ELSE IF ~resp.json /\ resp.status = 201
    THEN [id |-> NoID,
          err |-> Wrap("failed to parse release response", <<"json">>)]
    ELSE [id |-> FormatInt(resp.id), err |-> Nil]

\* createRelease from the response on: what it returns to CreateRelease.
createRelease(resp) ==
    IF ~resp.sent
    THEN [id |-> NoID, err |-> Wrap("failed to send request", <<"do">>)]
    ELSE IF resp.status # 201
    THEN [id |-> NoID,
          err |-> Wrap("failed to create release", <<resp.body>>)]
    ELSE IF ~resp.json
    THEN [id |-> NoID,
          err |-> Wrap("failed to parse release response", <<"json">>)]
    ELSE [id |-> FormatInt(resp.id), err |-> Nil]

\* One call of createRelease for some version, e.g. by one more run of the
\* command against the same repository.
RemoteCreateCall ==
    /\ Len(crLog) < MaxCreateCalls
    /\ \E ver \in Versions :
         \E x \in RemoteExchanges(remote, ReleaseData(ver)) :
           LET ret == createRelease(x.resp)
           IN  /\ remote' = x.rem
               /\ crLog' = Append(crLog, [tag |-> ReleaseData(ver).tag_name,
                                          status |-> x.resp.status,
                                          id |-> ret.id, err |-> ret.err])
    /\ UNCHANGED <<relAssets, invLog, inv, cmdAllVars, classifyVars,
                   changelogVars>>

InitRemote ==
    /\ CmdIdle
    /\ RemoteIdle
    /\ ClassifyIdle
    /\ ChangelogIdle

NextRemote == RemoteCreateCall

SpecRemote == InitRemote /\ [][NextRemote]_vars

\* The release the remote holds for a tag.
Held(rem, tag) == {r \in rem : r.tag_name = tag}

Messages(err) == {err[k] : k \in 1..Len(err)}

\* C12: the error the release command ends with names every platform
\* whose build failed and every asset whose upload failed.
C12_ErrorEnumeratesAll ==
    (pc = "done" /\ cmdErr # Nil) =>
        /\ bReturned =>
             \A i \in FailedBuilds : BuildError(i)[1] \in Messages(cmdErr)
        /\ upReturned =>
             \A i \in FailedUploads :
                 UploadError(i, uRes[i])[1] \in Messages(cmdErr)

\* =====================================================================
\* changelog: parseCommitMessage
\* =====================================================================
MaxMsgLen == 4

\* Character classes of the regular expression.
Letters ==
    {"a", "b", "c", "d", "e", "f", "g", "h", "i", "j", "k", "l", "m", "n",
     "o", "p", "q", "r", "s", "t", "u", "v", "w", "x", "y", "z"}
WordChars == Letters \cup {"0", "1", "2", "3", "4", "5", "6", "7", "8", "9", "_"}
ScopeChars == WordChars \cup {"-"}
SpaceChars == {" ", "\t", "\n", "\f", "\r"}

\* A sequence of characters as a string.
RECURSIVE Str(_)
Str(s) == IF s = <<>> THEN "" ELSE s[1] \o Str(Tail(s))

\* Length of the longest run of characters of a class that starts at i.
RECURSIVE RunLen(_, _, _)
RunLen(s, i, class) ==
    IF i <= Len(s) /\ s[i] \in class THEN 1 + RunLen(s, i + 1, class) ELSE 0

Max(S) == CHOOSE x \in S : \A y \in S : y <= x

\* re.FindStringSubmatch(message) for ^(\w+)(?:\(([\w-]+)\))?:\s*(.+)$ :
\* <<>> when the message does not match, else the whole match and the three
\* groups.  \w+ ends where the word characters end, the scope group is
\* taken when a "(" follows, \s* is greedy but leaves (.+) one character,
\* and "." matches no newline.
FindStringSubmatch(message) ==
    LET n == Len(message)
        tl == RunLen(message, 1, WordChars)
        hasScope == tl + 1 <= n /\ message[tl + 1] = "("
        sl == IF hasScope THEN RunLen(message, tl + 2, ScopeChars) ELSE 0
        scopeOk == hasScope =>
                     /\ sl >= 1
                     /\ tl + 2 + sl <= n
                     /\ message[tl + 2 + sl] = ")"
        colon == IF hasScope THEN tl + sl + 3 ELSE tl + 1
        rest == SubSeq(message, colon + 1, n)
        J == {j \in 0..(Len(rest) - 1) :
                /\ \A k \in 1..j : rest[k] \in SpaceChars
                /\ \A k \in (j + 1)..Len(rest) : rest[k] # "\n"}
    IN  IF tl >= 1 /\ scopeOk /\ colon <= n /\ message[colon] = ":" /\ J # {}
        THEN <<message,
               SubSeq(message, 1, tl),
               IF hasScope THEN SubSeq(message, tl + 2, tl + 1 + sl) ELSE <<>>,
               SubSeq(rest, Max(J) + 1, Len(rest))>>
        ELSE <<>>

\* Entry{Type: "other", Description: message} with an empty description.
DefaultEntryNoDescription(message) ==
    [Type |-> "other", Scope |-> "", Description |-> ""]

\* Entry{Type: "other", Description: message}
DefaultEntry(message) ==
    [Type |-> "other", Scope |-> "", Description |-> Str(message)]

parseCommitMessage(message) ==
    LET matches == FindStringSubmatch(message)
    IN  IF Len(matches) >= 4
        THEN [Type |-> Str(matches[2]),
              Scope |-> Str(matches[3]),
              Description |-> Str(matches[4])]
        ELSE DefaultEntry(message)

\* The kinds formatChangelog renders, in its order.
Types ==
    <<"feat", "fix", "docs", "style", "refactor", "perf", "test", "build",
      "ci", "chore", "other">>
KnownKinds == {Types[k] : k \in 1..Len(Types)}

\* Messages parseCommitMessage is handed: every string of up to MaxMsgLen
\* characters of a small alphabet, and conventional-commit messages built
\* from type, scope and description tokens.
Alphabet == {"c", "i", "(", ")", ":", " ", "-"}
ArbitraryMessages == UNION {[1..k -> Alphabet] : k \in 0..MaxMsgLen}
TypeTokens == {<<"c", "i">>, <<"f", "i", "x">>, <<"i", "c">>, <<"w", "i", "p">>}
ScopeTokens == {<<>>, <<"u", "i">>, <<"a", "-", "b">>}
DescTokens == {<<"x">>, <<"a", " ", "b">>, <<"a", ":", "b">>}
Conventional(t, sc, d) ==
    t \o (IF sc = <<>> THEN <<>> ELSE <<"(">> \o sc \o <<")">>)
      \o <<":", " ">> \o d
ConventionalMessages ==
    {Conventional(t, sc, d) : t \in TypeTokens, sc \in ScopeTokens,
                              d \in DescTokens}

\* getCommits hands one message to parseCommitMessage.
Classify ==
    /\ cEntry = <<>>
    /\ cEntry' = <<parseCommitMessage(cMsg)>>
    /\ UNCHANGED <<cMsg, cmdAllVars, remoteVars, changelogVars>>

InitClassify ==
    /\ CmdIdle
    /\ RemoteIdle
    /\ ChangelogIdle
    /\ cMsg \in ArbitraryMessages \cup ConventionalMessages
    /\ cEntry = <<>>

NextClassify == Classify

SpecClassify == InitClassify /\ [][NextClassify]_vars

\* C15: for a message type(scope): desc (the scope is optional) the entry
\* has the type as its kind when the type is one of the eleven kinds and
\* kind other when it is not, with the scope and the description.
C15_ConventionalClassified ==
    cEntry # <<>> =>
        \A t \in TypeTokens, sc \in ScopeTokens, d \in DescTokens :
            cMsg = Conventional(t, sc, d) =>
                cEntry[1] = [Type |-> IF Str(t) \in KnownKinds
                                      THEN Str(t) ELSE "other",
                             Scope |-> Str(sc),
                             Description |-> Str(d)]

\* A message has the type: pattern when a colon follows a word and an
\* optional parenthesised scope at its start.
HasTypePattern(message) ==
    \E k \in 1..Len(message) :
        /\ message[k] = ":"
        /\ \E e \in 1..(k - 1) :
             /\ \A x \in 1..e : message[x] \in WordChars
             /\ \/ e = k - 1
                \/ /\ e + 3 <= k - 1
                   /\ message[e + 1] = "("
                   /\ message[k - 1] = ")"
                   /\ \A x \in (e + 2)..(k - 2) : message[x] \in ScopeChars

\* C16: parseCommitMessage returns an entry for every message, and for a
\* message without the type: pattern the entry has kind other, the whole
\* message as its description and no scope.
C16_FallbackToOther ==
    cEntry # <<>> =>
        /\ DOMAIN cEntry[1] = {"Type", "Scope", "Description"}
        /\ ~HasTypePattern(cMsg) =>
             cEntry[1] = [Type |-> "other", Scope |-> "",
                          Description |-> Str(cMsg)]

\* a message with a colon in it but no type before it was classified
C16_Witness ==
    /\ cEntry # <<>>
    /\ ~HasTypePattern(cMsg)
    /\ \E k \in 1..Len(cMsg) : cMsg[k] = ":"
    /\ Len(cMsg) >= 3

\* =====================================================================
\* changelog: getCommits and formatChangelog
\* =====================================================================
MaxCommits == 2

\* Author names, in alphabetical order.
AuthorList == <<"ann", "bob">>
Authors == {AuthorList[k] : k \in 1..Len(AuthorList)}

\* The %ad field of a git log line: text in the layout
\* "Mon Jan 2 15:04:05 2006 -0700" (a wall clock reading and a zone offset)
\* or text in another layout.
DateText(layout, clock, zone) ==
    [layout |-> layout, clock |-> clock, zone |-> zone]
DateTexts ==
    {DateText(TRUE, 1, 0), DateText(TRUE, 2, 0), DateText(TRUE, 2, 1),
     DateText(FALSE, 0, 0)}

\* time.Parse("Mon Jan 2 15:04:05 2006 -0700", text): the instant, or an
\* error for text in another layout.
ParseTime(text) ==
    IF text.layout THEN [ok |-> TRUE, instant |-> text.clock - text.zone]
    ELSE [ok |-> FALSE, instant |-> 0]

\* Subjects of the commits: conventional ones of known kinds, one of an
\* unknown type, one that is no conventional message.
FixSubject == Conventional(<<"f", "i", "x">>, <<>>, <<"x">>)
FeatSubject == Conventional(<<"f", "e", "a", "t">>, <<"u", "i">>, <<"y">>)
WipSubject == Conventional(<<"w", "i", "p">>, <<>>, <<"z">>)
NoteSubject == <<"n", "o", "t", "e">>

\* strings.Split(line, "|") of one line of git log's output; a subject
\* with a "|" in it gives a fifth part.
LineParts(hash, author, date, message) == <<hash, author, date, message>>
PipeSubjectParts(hash, author, date) ==
    <<hash, author, date, <<"a">>, <<"b">>>>

\* The commit hash of the k-th commit of the repository.
HashOf(k) == "h" \o ToString(k)

\* Lines git log can print for the k-th commit.
CommitLines(k) ==
    {LineParts(HashOf(k), a, d, m) :
        a \in Authors, d \in DateTexts, m \in {FixSubject, FeatSubject}}
    \cup {LineParts(HashOf(k), AuthorList[1], DateText(TRUE, 1, 0), WipSubject),
          LineParts(HashOf(k), AuthorList[2], DateText(TRUE, 2, 0), NoteSubject),
          PipeSubjectParts(HashOf(k), AuthorList[1], DateText(TRUE, 1, 0))}

\* Repositories of n commits, oldest first.
RECURSIVE ReposOf(_)
ReposOf(n) ==
    IF n = 0 THEN {<<>>}
    ELSE {Append(r, l) : r \in ReposOf(n - 1), l \in CommitLines(n)}

\* Repositories of up to MaxCommits commits.
Repositories == UNION {ReposOf(n) : n \in 0..MaxCommits}

Reverse(s) == [k \in 1..Len(s) |-> s[Len(s) + 1 - k]]

\* Output of git log [since..HEAD] split into lines and parts: the commits
\* after the tag, newest first.
GitLog(commits, tagAt) ==
    Reverse(SubSeq(commits, (IF tagAt < 0 THEN 0 ELSE tagAt) + 1,
                   Len(commits)))

\* The entry getCommits builds from the four parts of a line.
EntryOf(parts) ==
    LET e == parseCommitMessage(parts[4])
    IN  [Type |-> e.Type, Scope |-> e.Scope, Description |-> e.Description,
         Hash |-> parts[1], Author |-> parts[2],
         Date |-> ParseTime(parts[3]).instant]

\* The loop of getCommits with break in place of continue.
RECURSIVE ParseRecordsUntilBad(_)
ParseRecordsUntilBad(lines) ==
    IF lines = <<>> THEN <<>>
    ELSE IF Len(lines[1]) # 4 THEN <<>>
    ELSE IF ~ParseTime(lines[1][3]).ok THEN <<>>
    ELSE <<EntryOf(lines[1])>> \o ParseRecordsUntilBad(Tail(lines))

\* The loop of getCommits: a line without four parts, or with a date that
\* does not parse, is skipped.
RECURSIVE ParseRecords(_)
ParseRecords(lines) ==
    IF lines = <<>> THEN <<>>
    ELSE IF Len(lines[1]) # 4 THEN ParseRecords(Tail(lines))
    ELSE IF ~ParseTime(lines[1][3]).ok THEN ParseRecords(Tail(lines))
    ELSE <<EntryOf(lines[1])>> \o ParseRecords(Tail(lines))

Perms(n) == {f \in [1..n -> 1..n] : \A i, j \in 1..n : f[i] = f[j] => i = j}

\* The entries left in the order the loop appended them.
Unsorted(entries) == {entries}

\* sort.Slice(entries, Date.After): some arrangement of the entries with
\* no entry before a later one; entries of equal date in any order.
SortSlice(entries) ==
    {[k \in 1..Len(entries) |-> entries[p[k]]] : p \in
        {q \in Perms(Len(entries)) :
            \A i, j \in 1..Len(entries) :
                i < j => entries[q[i]].Date >= entries[q[j]].Date}}

\* getCommits from the output of git log on: the entries it can return.
getCommits(lines) == SortSlice(ParseRecords(lines))

formatType(t) ==
    CASE t = "feat" -> "Features"
      [] t = "fix" -> "Bug Fixes"
      [] t = "docs" -> "Documentation"
      [] t = "style" -> "Styles"
      [] t = "refactor" -> "Code Refactoring"
      [] t = "perf" -> "Performance Improvements"
      [] t = "test" -> "Tests"
      [] t = "build" -> "Builds"
      [] t = "ci" -> "Continuous Integration"
      [] t = "chore" -> "Chores"
      [] t = "other" -> "Other Changes"

\* groups[t]
Group(entries, t) == SelectSeq(entries, LAMBDA e : e.Type = t)

\* "- (scope) description"
\* A section for every kind, with or without entries.
HasGroupAlways(entries, t) == TRUE

\* if entries, ok := groups[t]; ok
HasGroup(entries, t) == Group(entries, t) # <<>>

EntryLine(e) ==
    "- " \o (IF e.Scope # "" THEN "(" \o e.Scope \o ") " ELSE "")
         \o e.Description

\* The lines of a group's entries, in the group's order.
EntryLines(g) == [k \in 1..Len(g) |-> EntryLine(g[k])]

\* The sections of the kinds from Types[k] on, as lines.
RECURSIVE SectionsFrom(_, _)
SectionsFrom(entries, k) ==
    IF k > Len(Types) THEN <<>>
    ELSE (IF HasGroup(entries, Types[k])
          THEN <<"## " \o formatType(Types[k]), "">>
                 \o EntryLines(Group(entries, Types[k])) \o <<"">>
          ELSE <<>>)
         \o SectionsFrom(entries, k + 1)

\* The authors map of formatChangelog.
AuthorsOf(entries) == {entries[k].Author : k \in 1..Len(entries)}

\* Orders a range over a map can visit its keys in.
MapOrders(keys) ==
    {q \in [1..Cardinality(keys) -> keys] :
        \A i, j \in 1..Cardinality(keys) : q[i] = q[j] => i = j}

ContributorLine(a) == "- " \o a
ContributorLines(q) == [k \in 1..Len(q) |-> ContributorLine(q[k])]

\* time.Now().Format("2006-01-02")
Today == "2026-11-05"

\* formatChangelog: the texts it can return, each as its lines.
formatChangelog(ver, entries) ==
    {<<"# Changelog for " \o ver, "", "Release date: " \o Today, "">>
       \o SectionsFrom(entries, 1)
       \o <<"## Contributors", "">>
       \o ContributorLines(q) : q \in MapOrders(AuthorsOf(entries))}

\* What Generate leaves of one run: the lines git log printed, the entries
\* of getCommits, the text of formatChangelog, the fault of the
\* environment the run met ("" for none) and the error returned.
RunRecord(lines, entries, content, fault, err) ==
    [lines |-> lines, entries |-> entries, content |-> content,
     fault |-> fault, err |-> err]

\* One run of getCommits and formatChangelog on the repository's log; git
\* log itself may fail.
FormatRun ==
    /\ Len(genLog) < 2
    /\ LET lines == GitLog(gitCommits, gitTagAt)
       IN  \/ genLog' = Append(genLog,
                   RunRecord(<<>>, <<>>, <<>>, "log",
                             Wrap("failed to get commits", <<"log">>)))
           \/ \E entries \in getCommits(lines) :
                \E content \in formatChangelog("1.0.0", entries) :
                  genLog' = Append(genLog,
                      RunRecord(lines, entries, content, "", Nil))
    /\ UNCHANGED <<gitCommits, gitTagAt, chgFile, fileHist, cmdAllVars,
                   remoteVars, classifyVars>>

InitFormat ==
    /\ CmdIdle
    /\ RemoteIdle
    /\ ClassifyIdle
    /\ gitCommits \in Repositories
    /\ gitTagAt = 0
    /\ chgFile = [exists |-> FALSE, data |-> <<>>]
    /\ fileHist = <<>>
    /\ genLog = <<>>

NextFormat == FormatRun

SpecFormat == InitFormat /\ [][NextFormat]_vars

\* ------------------------------------------------ rendered structure
Runs == {genLog[k] : k \in 1..Len(genLog)}
Rendered == {r \in Runs : r.err = Nil}

Heading(t) == "## " \o formatType(t)
KindHeadings == {Heading(t) : t \in KnownKinds}
Headings(ts) == [k \in 1..Len(ts) |-> Heading(ts[k])]

\* Where the line is in the text (0: nowhere).
IndexOf(content, line) ==
    IF \E k \in 1..Len(content) : content[k] = line
    THEN CHOOSE k \in 1..Len(content) :
             /\ content[k] = line
             /\ \A j \in 1..(k - 1) : content[j] # line
    ELSE 0

\* The lines of a section: those after the heading and its blank line, up
\* to the next blank line.
SectionLines(content, heading) ==
    LET i == IndexOf(content, heading)
        nonblank == {content[k] : k \in 1..Len(content)} \ {""}
    IN  SubSeq(content, i + 2, i + 1 + RunLen(content, i + 2, nonblank))

\* C17: the text has the heading of a kind exactly when an entry has that
\* kind, each heading is followed by at least one entry line, and the
\* headings stand in the order of Types, whatever the order of the commits.
C17_SectionsOfKinds ==
    \A r \in Rendered :
        /\ SelectSeq(r.content, LAMBDA l : l \in KindHeadings)
             = Headings(SelectSeq(Types, LAMBDA t :
                            \E k \in 1..Len(r.entries) : r.entries[k].Type = t))
        /\ \A t \in KnownKinds :
             IndexOf(r.content, Heading(t)) # 0 =>
                /\ SectionLines(r.content, Heading(t)) # <<>>
                /\ \A k \in 1..Len(SectionLines(r.content, Heading(t))) :
                      \E j \in 1..Len(r.entries) :
                         /\ r.entries[j].Type = t
                         /\ SectionLines(r.content, Heading(t))[k]
                              = EntryLine(r.entries[j])

\* getCommits returned a fix entry before a feat entry, and the text has
\* the feat section before the fix section
C17_Witness ==
    \E r \in Rendered :
        /\ Len(r.lines) = 2
        /\ Len(r.entries) = 2
        /\ r.entries[1].Type = "fix"
        /\ r.entries[2].Type = "feat"
        /\ IndexOf(r.content, Heading("feat")) # 0
        /\ IndexOf(r.content, Heading("feat")) < IndexOf(r.content, Heading("fix"))

\* C18: the lines of each kind's section are the lines of that kind's
\* entries in an order in which no entry stands before a later one.
C18_NewestFirst ==
    \A r \in Rendered :
        \A t \in KnownKinds :
            LET g == Group(r.entries, t)
            IN  g # <<>> =>
                  /\ SectionLines(r.content, Heading(t)) = EntryLines(g)
                  /\ \A i, j \in 1..Len(g) : i < j => g[i].Date >= g[j].Date

\* git log printed the older of two commits of one kind first, and the
\* section lists them
C18_Witness ==
    \E r \in Rendered :
        /\ Len(r.lines) = 2
        /\ ParseTime(r.lines[1][3]).ok
        /\ ParseTime(r.lines[2][3]).ok
        /\ ParseTime(r.lines[1][3]).instant < ParseTime(r.lines[2][3]).instant
        /\ Len(Group(r.entries, "fix")) = 2

\* The lines of the Contributors section.
Contributors(content) ==
    SubSeq(content, IndexOf(content, "## Contributors") + 2, Len(content))

\* C19: two runs of formatChangelog on the same entries list the authors
\* in the same order, the alphabetical one.
C19_ContributorsDeterministic ==
    \A r1, r2 \in Rendered :
        r1.entries = r2.entries =>
            /\ Contributors(r1.content) = Contributors(r2.content)
            /\ Contributors(r1.content)
                 = ContributorLines(SelectSeq(AuthorList,
                                    LAMBDA a : a \in AuthorsOf(r1.entries)))

\* A line with four parts whose date does not parse.
BadTimestamp(parts) == Len(parts) = 4 /\ ~ParseTime(parts[3]).ok

MaxRuns == 2

\* Faults of the environment one run of Generate can meet: git describe,
\* git log, os.MkdirAll, os.ReadFile or os.WriteFile fails ("": none).
GenerateFaults == {"", "describe", "log", "mkdir", "read", "write"}

\* getLastTag: the commits the last tag covers.  Without a tag git describe
\* exits with status 128; err.Error() of the ExitError is "exit status
\* 128", which does not contain "No names found", so the error is returned.
getLastTag(tagAt, fault) ==
    IF fault = "describe" \/ tagAt < 0
    THEN [tag |-> -1, err |-> <<"exit status 128">>]
    ELSE [tag |-> tagAt, err |-> Nil]

\* The file's text is replaced by the new text.
MergedTextOverwrite(content, existingContent) == content

\* content + "\n\n" + existingContent, as lines
MergedText(content, existingContent) ==
    content \o <<"", "">> \o existingContent

\* writeChangelog: the file afterwards and the error returned.  A call
\* that fails leaves the file as it was.
writeChangelog(file, content, fault) ==
    IF fault = "mkdir"
    THEN [file |-> file,
          err |-> Wrap("failed to create changelog directory", <<"mkdir">>)]
    ELSE IF file.exists /\ fault = "read"
    THEN [file |-> file,
          err |-> Wrap("failed to read existing changelog", <<"read">>)]
    ELSE IF fault = "write"
    THEN [file |-> file,
          err |-> Wrap("failed to write changelog", <<"write">>)]
    ELSE [file |-> [exists |-> TRUE,
                    data |-> MergedText(content,
                                 IF file.exists THEN file.data ELSE <<>>)],
          err |-> Nil]

\* Generate(version)
Generate ==
    /\ Len(genLog) < MaxRuns
    /\ \E fault \in GenerateFaults :
         LET last == getLastTag(gitTagAt, fault)
             lines == GitLog(gitCommits, last.tag)
         IN  IF last.err # Nil
             THEN /\ genLog' = Append(genLog,
                        RunRecord(<<>>, <<>>, <<>>, fault,
                                  Wrap("failed to get last tag", last.err)))
                  /\ UNCHANGED <<chgFile, fileHist>>
             ELSE IF fault = "log"
             THEN /\ genLog' = Append(genLog,
                        RunRecord(<<>>, <<>>, <<>>, fault,
                                  Wrap("failed to get commits", <<"log">>)))
                  /\ UNCHANGED <<chgFile, fileHist>>
             ELSE \E entries \in getCommits(lines) :
                    \E content \in formatChangelog("1.0.0", entries) :
                      LET w == writeChangelog(chgFile, content, fault)
                      IN  /\ chgFile' = w.file
                          /\ fileHist' = IF w.err = Nil
                                         THEN Append(fileHist, w.file.data)
                                         ELSE fileHist
                          /\ genLog' = Append(genLog,
                                RunRecord(lines, entries, content, fault,
                                    IF w.err = Nil THEN Nil
                                    ELSE Wrap("failed to write changelog",
                                              w.err)))
    /\ UNCHANGED <<gitCommits, gitTagAt, cmdAllVars, remoteVars,
                   classifyVars>>

\* Lines of the commits made between the runs.
FewCommitLines(k) ==
    {LineParts(HashOf(k), AuthorList[1], DateText(TRUE, 1, 0), FixSubject),
     LineParts(HashOf(k), AuthorList[2], DateText(TRUE, 2, 0), FeatSubject)}

\* Someone commits.
GitCommit ==
    /\ Len(gitCommits) < MaxCommits
    /\ \E l \in FewCommitLines(Len(gitCommits) + 1) :
         gitCommits' = Append(gitCommits, l)
    /\ UNCHANGED <<gitTagAt, chgFile, fileHist, genLog, cmdAllVars,
                   remoteVars, classifyVars>>

\* Someone tags HEAD.
GitTag ==
    /\ gitTagAt # Len(gitCommits)
    /\ gitTagAt' = Len(gitCommits)
    /\ UNCHANGED <<gitCommits, chgFile, fileHist, genLog, cmdAllVars,
                   remoteVars, classifyVars>>

\* Changelog files a first run can find: none, an empty one, one with text.
FilesAtStart ==
    {[exists |-> FALSE, data |-> <<>>],
     [exists |-> TRUE, data |-> <<>>],
     [exists |-> TRUE, data |-> <<"# Notes", "kept by hand">>]}

InitChangelog ==
    /\ CmdIdle
    /\ RemoteIdle
    /\ ClassifyIdle
    /\ gitCommits = <<>>
    /\ gitTagAt \in {-1, 0}
    /\ chgFile \in FilesAtStart
    /\ fileHist = IF chgFile.exists THEN <<chgFile.data>> ELSE <<>>
    /\ genLog = <<>>

NextChangelog ==
    \/ Generate
    \/ GitCommit
    \/ GitTag

SpecChangelog == InitChangelog /\ [][NextChangelog]_vars

\* s is the end of t.
IsSuffix(s, t) ==
    /\ Len(s) <= Len(t)
    /\ SubSeq(t, Len(t) - Len(s) + 1, Len(t)) = s

Written(k) ==
    IF genLog[k].err = Nil
    THEN {genLog[k].entries[j].Hash : j \in 1..Len(genLog[k].entries)}
    ELSE {}

\* C14: no commit is written into the changelog file twice, neither by
\* one run of Generate nor by two.
C14_NoCommitTwice ==
    /\ \A k \in 1..Len(genLog) :
         genLog[k].err = Nil =>
            \A i, j \in 1..Len(genLog[k].entries) :
               genLog[k].entries[i].Hash = genLog[k].entries[j].Hash => i = j
    /\ \A k1, k2 \in 1..Len(genLog) :
         k1 < k2 => Written(k1) \cap Written(k2) = {}

\* =====================================================================
\* the fan-out stages
\* =====================================================================
\* Build units between mu.Lock() and mu.Unlock(), and inside bar.Add.
InResults == {i \in Units : bUnit[i] \in {"append", "unlock"}}
InBuildBar == {i \in Units : bUnit[i] = "bar_add"}
InUploadBar == {i \in Units : uUnit[i] = "bar_add"}

Reordered(ch, p) == [k \in 1..Len(ch) |-> ch[p[k]]]

\* The artifacts of a result list, whatever their order.
ArtifactSet(res) == {res[k] : k \in 1..Len(res)}

\* C22: what BuildBinaries returns (error or none, which error, which
\* artifacts) and what uploadAssets returns is the same whatever the order
\* in which the units finished, that is, in which their results and errors
\* were appended and sent.
C22_OrderIndependent ==
    /\ pc = "build_collect" =>
         \A p \in Perms(Len(bErrChan)), q \in Perms(Len(results)) :
            LET here == BuildCollect(bErrChan, results)
                there == BuildCollect(Reordered(bErrChan, p),
                                      Reordered(results, q))
            IN  /\ there.err = here.err
                /\ ArtifactSet(there.res) = ArtifactSet(here.res)
    /\ pc = "upload_collect" =>
         \A p \in Perms(Len(uErrChan)) :
            UploadCollect(Reordered(uErrChan, p)) = UploadCollect(uErrChan)

\* Build units inside buildForPlatform, where go build writes the output.
Compiling == {i \in Units : bUnit[i] = "compile"}

\* C23: no two build units that compile at the same time write the same
\* output path, for every matrix validateConfig accepts.
C23_DistinctOutputPaths ==
    \A i, j \in Compiling : i # j => BuildResult(i).Path # BuildResult(j).Path

\* C24: a file handle is open only while its upload is under way (opened,
\* not yet returned), and none is open once uploadAssets has returned.
C24_HandlesClosed ==
    /\ \A i \in handles : uUnit[i] = "request"
    /\ upReturned => handles = {}

\* ------------------------------------------------------- termination
\* One invocation whose flags and configuration let it reach the stages.
InitLive ==
    /\ Init
    /\ cfgLoadable
    /\ version = "1.0.0"
    /\ repo = RepoShort
    /\ tokenEnv = "tok"
    /\ cfg.DefaultRepo = RepoEmpty
    /\ ~cfg.ChangelogEnabled
    /\ ~generateChg

\* The scheduler runs a goroutine that can take a step, and every compiler
\* run and every remote call returns.
SpecLive == InitLive /\ [][Next]_vars /\ WF_vars(Next)

\* A unit about to send its error finds room in the channel.
SendNeverBlocks ==
    /\ \A i \in Units : bUnit[i] = "send" => Len(bErrChan) < ErrChanCap(N)
    /\ \A i \in Units : uUnit[i] = "send" => Len(uErrChan) < ErrChanCap(M)

\* C25: BuildBinaries, once it starts its units, returns, and so does
\* uploadAssets, in every interleaving and for every number of failing
\* units; no unit ever waits to send its error.
C25_Terminates ==
    /\ (pc = "build_spawn") ~> bReturned
    /\ (pc = "upload_spawn") ~> upReturned
    /\ []SendNeverBlocks

\* BuildBinaries returned after every unit of a matrix of two or more
\* failed and sent its error
C25_Witness ==
    /\ bReturned
    /\ N >= 2
    /\ FailedBuilds = 1..N
    /\ \A i \in 1..N : bUnit[i] = "done"

\* C26: an error channel is closed only when every unit of its stage has
\* finished; every send happens before the close and every read of the
\* collector after it.
C26_CloseAfterAll ==
    [][/\ bClosed' => (bIdx' = N /\ \A i \in 1..N : bUnit'[i] = "done")
       /\ uClosed' => (uIdx' = M /\ \A i \in 1..M : uUnit'[i] = "done")
       /\ Len(bErrChan') > Len(bErrChan) => ~bClosed /\ ~bClosed'
       /\ Len(uErrChan') > Len(uErrChan) => ~uClosed /\ ~uClosed'
       /\ Len(bErrChan') < Len(bErrChan) => bClosed
       /\ Len(uErrChan') < Len(uErrChan) => uClosed]_vars

\* the build's channel was closed holding the errors of two units, and
\* the collector has read one of them
C26_Witness ==
    /\ bClosed
    /\ bReturned
    /\ Cardinality(FailedBuilds) = 2
    /\ Len(bErrChan) = 1

\* C27: BuildBinaries returns no error exactly when the build of every
\* matrix entry succeeded; then it returns one artifact per entry, each
\* the result of its entry; with an error it returns no artifact, and only
\* a return without error lets the publisher start.
C27_AllOrNothing ==
    bReturned =>
        /\ buildErr = Nil <=> (bIdx = N /\ \A i \in 1..N : bRes[i] = "ok")
        /\ buildErr = Nil =>
             /\ Len(binaries) = N
             /\ \E p \in Perms(N) :
                   \A k \in 1..N : binaries[k] = BuildResult(p[k])
        /\ buildErr # Nil => binaries = <<>>
        /\ createAttempts > 0 => (buildErr = Nil /\ Len(binaries) = N)

\* a matrix of two: one return with both artifacts, the second entry's
\* first, reached the publisher
C27_Witness ==
    /\ bReturned
    /\ buildErr = Nil
    /\ N = 2
    /\ cfg.Platforms[1] # cfg.Platforms[2]
    /\ binaries = <<BuildResult(2), BuildResult(1)>>
    /\ createAttempts > 0

\* ------------------------------------------------ nothing lost in rendering
\* How many lines the sections of the kinds from Types[k] on have.
RECURSIVE KindSectionLinesFrom(_, _)
KindSectionLinesFrom(content, k) ==
    IF k > Len(Types) THEN 0
    ELSE (IF IndexOf(content, Heading(Types[k])) # 0
          THEN Len(SectionLines(content, Heading(Types[k])))
          ELSE 0)
         + KindSectionLinesFrom(content, k + 1)

\* C28: every entry passed to formatChangelog appears in exactly one kind
\* section of the text: each entry's line stands in the section of some
\* kind, and the kind sections together have as many lines as there are
\* entries, also when an entry's type token is none of the eleven kinds.
C28_NoEntryLost ==
    \A r \in Rendered :
        /\ \A j \in 1..Len(r.entries) :
              \E t \in KnownKinds :
                 /\ IndexOf(r.content, Heading(t)) # 0
                 /\ \E k \in 1..Len(SectionLines(r.content, Heading(t))) :
                       SectionLines(r.content, Heading(t))[k]
                         = EntryLine(r.entries[j])
        /\ KindSectionLinesFrom(r.content, 1) = Len(r.entries)

\* ------------------------------------------- the command, run again
MaxInvocations == 2

\* filepath.Base of the paths in opts.Binaries of an invocation.
ReleaseBinaries ==
    {AssetName(PlatformList[1].OS, PlatformList[1].Arch),
     AssetName(PlatformList[2].OS, PlatformList[2].Arch)}

\* The remote's side of the POST of uploadSingleAsset: the file may fail
\* to open (no request), the request may not be delivered, the answer may
\* be lost after the remote stored the asset, the remote may refuse, or it
\* stores the asset and answers 201.  A release it does not hold is
\* answered 404.
UploadExchanges(rem, assets, id, name) ==
    LET held == \E r \in rem : FormatInt(r.id) = id
        stored == assets \cup {[rel |-> id, name |-> name]}
    IN  {[opened |-> FALSE, sent |-> FALSE, status |-> 0, assets |-> assets],
         [opened |-> TRUE, sent |-> FALSE, status |-> 0, assets |-> assets]}
        \cup
        (IF held
         THEN {[opened |-> TRUE, sent |-> TRUE, status |-> 0,
                assets |-> stored],
               [opened |-> TRUE, sent |-> TRUE, status |-> 502,
                assets |-> assets],
               [opened |-> TRUE, sent |-> TRUE, status |-> 201,
                assets |-> stored]}
         ELSE {[opened |-> TRUE, sent |-> TRUE, status |-> 404,
                assets |-> assets]})

\* uploadSingleAsset: the error it returns for an exchange.
uploadSingleAsset(x) ==
    IF ~x.opened THEN Wrap("failed to open file", <<"open">>)
    ELSE IF x.status = 0 THEN Wrap("failed to send request", <<"do">>)
    ELSE IF x.status # 201 THEN <<"failed to upload asset">>
    ELSE Nil

\* CreateRelease without its check of createRelease's error.
CreateFailedNever(ret) == FALSE

\* if err != nil after createRelease
CreateFailed(ret) == ret.err # Nil

\* What a returned CreateRelease leaves: the version, whether it got past
\* the create step and with which id, the assets whose upload request
\* went out, the assets whose upload failed, the assets the remote held
\* for the release at the return, and the error.
Invocation(ver, created, id, sent, failed, assets, err) ==
    [ver |-> ver, created |-> created, id |-> id, sent |-> sent,
     failed |-> failed, assets |-> assets, err |-> err]

\* The assets the remote holds for a release.
AssetsOf(assets, id) == {a.name : a \in {b \in assets : b.rel = id}}

\* CreateRelease for some version up to the create step.
RerunCreate ==
    /\ inv.phase = "idle"
    /\ Len(invLog) < MaxInvocations
    /\ \E ver \in Versions :
         \E x \in RemoteExchanges(remote, ReleaseData(ver)) :
           LET ret == createRelease(x.resp)
           IN  /\ remote' = x.rem
               /\ IF CreateFailed(ret)
                  THEN /\ invLog' = Append(invLog,
                             Invocation(ver, FALSE, NoID, {}, {}, {},
                                 Wrap("failed to create release", ret.err)))
                       /\ UNCHANGED inv
                  ELSE /\ inv' = [phase |-> "upload", ver |-> ver,
                                  id |-> ret.id, pending |-> ReleaseBinaries,
                                  sent |-> {}, failed |-> {}]
                       /\ UNCHANGED invLog
    /\ UNCHANGED <<crLog, relAssets, cmdAllVars, classifyVars, changelogVars>>

\* One upload goroutine of uploadAssets, from start to end.
RerunUpload ==
    /\ inv.phase = "upload"
    /\ \E name \in inv.pending :
         \E x \in UploadExchanges(remote, relAssets, inv.id, name) :
           /\ relAssets' = x.assets
           /\ inv' = [inv EXCEPT
                 !.pending = @ \ {name},
                 !.sent = IF x.sent THEN @ \cup {name} ELSE @,
                 !.failed = IF uploadSingleAsset(x) # Nil
                            THEN @ \cup {name} ELSE @]
    /\ UNCHANGED <<remote, crLog, invLog, cmdAllVars, classifyVars,
                   changelogVars>>

\* wg.Wait(), the range over errChan, and CreateRelease's return.
RerunReturn ==
    /\ inv.phase = "upload"
    /\ inv.pending = {}
    /\ \E err \in IF inv.failed = {} THEN {Nil}
                  ELSE {Wrap("failed to upload assets",
                             <<"failed to upload " \o n>>) : n \in inv.failed} :
         invLog' = Append(invLog,
             Invocation(inv.ver, TRUE, inv.id, inv.sent, inv.failed,
                        AssetsOf(relAssets, inv.id), err))
    /\ inv' = NoInvocation
    /\ UNCHANGED <<remote, crLog, relAssets, cmdAllVars, classifyVars,
                   changelogVars>>

InitRerun ==
    /\ CmdIdle
    /\ RemoteIdle
    /\ ClassifyIdle
    /\ ChangelogIdle

NextRerun ==
    \/ RerunCreate
    \/ RerunUpload
    \/ RerunReturn

SpecRerun == InitRerun /\ [][NextRerun]_vars

\* An invocation that created the release and failed an upload.
Partial(r) == r.created /\ r.failed # {}

\* C29: after an invocation that created the release but failed at least
\* one upload, every later invocation for the same version fails at the
\* create step and sends no upload, and the release keeps exactly the
\* assets it had when that invocation returned.
C29_NeverCompleted ==
    \A i \in 1..Len(invLog) :
        Partial(invLog[i]) =>
           /\ AssetsOf(relAssets, invLog[i].id) = invLog[i].assets
           /\ ~(inv.phase = "upload" /\ inv.ver = invLog[i].ver)
           /\ \A j \in (i + 1)..Len(invLog) :
                 invLog[j].ver = invLog[i].ver =>
                    /\ ~invLog[j].created
                    /\ invLog[j].err # Nil
                    /\ invLog[j].err[1] = "failed to create release"
                    /\ invLog[j].sent = {}

\* a first invocation created the release and uploaded one of its two
\* assets, and a second one for the same version was refused at the create
\* step as a duplicate
C29_Witness ==
    /\ Len(invLog) = 2
    /\ invLog[1].ver = invLog[2].ver
    /\ Partial(invLog[1])
    /\ Cardinality(invLog[1].assets) = 1
    /\ Cardinality(invLog[1].failed) = 1
    /\ invLog[2].err
         = <<"failed to create release", "failed to create release",
             "already_exists">>
    /\ AssetsOf(relAssets, invLog[1].id) = invLog[1].assets

\* ------------------------------------------------ missing inputs
\* The version is empty, or the repository is (no flag and no configured
\* default), or the token environment variable is.
InputMissing ==
    \/ version = ""
    \/ (IF repo = RepoEmpty THEN cfg.DefaultRepo ELSE repo) = RepoEmpty
    \/ tokenEnv = ""

\* C30: with the version, the repository or the token missing, the command
\* starts no stage (no changelog run, no build unit, no createRelease, no
\* upload request) and, once over, has returned an error and has not
\* reported a release.
C30_FailsBeforeStages ==
    InputMissing =>
       /\ stages = <<>>
       /\ pc \in {"load", "flags", "done"}
       /\ bIdx = 0
       /\ \A i \in Units : bUnit[i] = "idle" /\ uUnit[i] = "idle"
       /\ createAttempts = 0
       /\ uCalls = {}
       /\ ~printed
       /\ pc = "done" =>
             /\ cmdErr # Nil
             /\ cfgLoadable =>
                   cmdErr \in {<<"version is required">>,
                               <<"repository is required">>,
                               <<"GitHub token not found">>}

\* the configuration loaded, a version and a repository were given, the
\* changelog was asked for, and the command ended on the missing token
C30_Witness ==
    /\ cfgLoadable
    /\ version = "1.0.0"
    /\ repo = RepoShort
    /\ tokenEnv = ""
    /\ generateChg
    /\ pc = "done"
    /\ cmdErr = <<"GitHub token not found">>
    /\ stages = <<>>

\* ------------------------------------------------ the default repository
\* --repo was not given and RunE took the configuration's non-empty
\* default (a --repo value is never the default's string here).
UsesDefaultRepo ==
    /\ cfg.DefaultRepo # RepoEmpty
    /\ repo = cfg.DefaultRepo
    /\ pc \notin {"load", "flags"}

\* C31: when the command runs on the configuration's validated default
\* repository, the publish stage accepts it: parseRepoURL succeeds on it,
\* and a publish stage that is over has called createRelease.
C31_DefaultRepoAccepted ==
    (UsesDefaultRepo /\ \E k \in 1..Len(stages) : stages[k] = "publish") =>
       /\ parseRepoURL(repo).ok
       /\ pc = "done" => createAttempts > 0

====
